---- MODULE Spec2Model ----
(***************************************************************************)
(* WayFinder: a building graph kept in Neo4j (endeavor_graph2.py), the     *)
(* route queries answered from it (endeavor_rag_directory.py,              *)
(* endeavor_rag.py) and the meeting-room recommender (recommender.py).     *)
(*                                                                         *)
(* Grid labels and type names are sequences of one-character strings.      *)
(* A Python float distance d is kept as the integer floor(d * Scale).      *)
(***************************************************************************)
EXTENDS Integers, Sequences, FiniteSets, TLC

VARIABLES
    records,    \* the location records of the JSON file given to the builder
    db,         \* the Neo4j database: nodes, Level nodes, relationships
    pc,         \* position of the builder script
    fetched,    \* the `nodes` list read by _get_all_location_nodes
    li, lj,     \* loop indices i, j of _create_near_relationships (0-based)
    lastBuilt,  \* database content when the previous run of the script ended,
                \* and whether that run read the same file
    res,        \* what the last query returned to its caller
    rooms,      \* the rows of the Postgres table rooms
    bookings,   \* the rows of the Postgres table bookings
    rq,         \* the arguments of the call of recommend
    rpc,        \* position of the call of recommend
    avail,      \* available_rooms
    ri,         \* index of the room the scan of recommend is at (1-based)
    heap,       \* room_heap
    pops,       \* passes the extraction loop of recommend has left
    recs,       \* recommendations
    grids,      \* the two grid labels given to the parsers
    gpc,        \* position of the calls of the parsers
    parsed,     \* what parse_grid gave for the first label
    gdist,      \* what _calculate_grid_distance gave for the two labels
    infos,      \* node_infos given to generate_directions
    dpc,        \* position of the call of generate_directions
    di,         \* loop index i of generate_directions (0-based)
    steps,      \* steps
    dtext,      \* kind of the string generate_directions returned
    ep          \* the running call of the tool endeavor_rag_directory

buildVars == <<records, db, pc, fetched, li, lj, lastBuilt>>
recVars == <<rooms, bookings, rq, rpc, avail, ri, heap, pops, recs>>
gridVars == <<grids, gpc, parsed, gdist>>
dirVars == <<infos, dpc, di, steps, dtext>>
renVars == <<gridVars, dirVars>>
vars == <<records, db, pc, fetched, li, lj, lastBuilt, res,
          rooms, bookings, rq, rpc, avail, ri, heap, pops, recs,
          grids, gpc, parsed, gdist, infos, dpc, di, steps, dtext, ep>>

\* Python None / Cypher null, one value per type so that values stay comparable
NoGrid  == <<"None">>                                \* a grid that is None
NoLevel == 0 - 1                                     \* a level that is null
NoDist  == 0 - 1                                     \* a distance that is None
NoMatch == [letters |-> <<>>, digits |-> <<>>]       \* re.match returned None

\* ------------------------------------------------------------------ bounds
MaxRecords == 5     \* longest record list given to the builder
MaxRooms == 5       \* most rows of the table rooms
MaxK == 3           \* largest top_k asked for
Scale == 100        \* fixed-point resolution of a distance

\* ------------------------------------------------------- program constants
NearThreshold == 3  \* endeavor_graph2.py: dist <= 3

\* ------------------------------------------------------------- characters
Upper == <<"A","B","C","D","E","F","G","H","I","J","K","L","M",
           "N","O","P","Q","R","S","T","U","V","W","X","Y","Z">>
Digits == <<"0","1","2","3","4","5","6","7","8","9">>

IsUpper(c) == \E i \in 1..Len(Upper) : Upper[i] = c
IsDigit(c) == \E i \in 1..Len(Digits) : Digits[i] = c
\* ord(c) - ord('A') for an uppercase letter
OrdA(c) == (CHOOSE i \in 1..Len(Upper) : Upper[i] = c) - 1
DigitVal(c) == (CHOOSE i \in 1..Len(Digits) : Digits[i] = c) - 1

\* length of the longest prefix of s, from position p, whose characters satisfy
\* the class (greedy [A-Z]+ / \d+)
RECURSIVE RunUpper(_, _)
RunUpper(s, p) ==
    IF p <= Len(s) /\ IsUpper(s[p]) THEN 1 + RunUpper(s, p + 1) ELSE 0

RECURSIVE RunDigit(_, _)
RunDigit(s, p) ==
    IF p <= Len(s) /\ IsDigit(s[p]) THEN 1 + RunDigit(s, p + 1) ELSE 0

\* re.match(r"([A-Z]+)(\d+)", grid): NoMatch when there is no match, else the
\* two groups.  The match is anchored at the start and ignores what follows.
ReMatch(grid) ==
    LET nl == RunUpper(grid, 1)
        nd == RunDigit(grid, nl + 1)
    IN  IF nl = 0 \/ nd = 0 THEN NoMatch
        ELSE [letters |-> SubSeq(grid, 1, nl),
              digits  |-> SubSeq(grid, nl + 1, nl + nd)]

\* int(match.group(2))
RECURSIVE ToInt(_)
ToInt(ds) ==
    IF ds = <<>> THEN 0
    ELSE ToInt(SubSeq(ds, 1, Len(ds) - 1)) * 10 + DigitVal(ds[Len(ds)])

\* the same scheme with A = 0
RECURSIVE ColToNumZero(_)
ColToNumZero(letters) ==
    IF letters = <<>> THEN 0
    ELSE ColToNumZero(SubSeq(letters, 1, Len(letters) - 1)) * 26
         + OrdA(letters[Len(letters)])

\* EndeavorGraph._col_to_num: left-to-right Horner scheme, A = 1
RECURSIVE ColToNum(_)
ColToNum(letters) ==
    IF letters = <<>> THEN 0
    ELSE ColToNum(SubSeq(letters, 1, Len(letters) - 1)) * 26
         + (OrdA(letters[Len(letters)]) + 1)

\* floor(sqrt(n)) by bisection on lo..hi
RECURSIVE SqrtIn(_, _, _)
SqrtIn(n, lo, hi) ==
    IF lo >= hi THEN lo
    ELSE LET mid == (lo + hi + 1) \div 2
         IN  IF mid * mid <= n THEN SqrtIn(n, mid, hi) ELSE SqrtIn(n, lo, mid - 1)

\* the root lies in 0..46340 for every n below 2^31
ISqrt(n) == SqrtIn(n, 0, IF n < 46340 THEN n ELSE 46340)

\* the float ((dx)**2 + (dy)**2) ** 0.5 in fixed point
FloatSqrt(d2) == ISqrt(d2 * Scale * Scale)

\* a distance function that gives 0 where the labels give no distance
CalculateGridDistanceSentinel(grid1, grid2) ==
    IF grid1 = NoGrid \/ grid2 = NoGrid THEN 0
    ELSE LET match1 == ReMatch(grid1)
             match2 == ReMatch(grid2)
         IN  IF match1 = NoMatch \/ match2 = NoMatch THEN 0
             ELSE FloatSqrt((ColToNum(match1.letters) - ColToNum(match2.letters))
                            * (ColToNum(match1.letters) - ColToNum(match2.letters))
                            + (ToInt(match1.digits) - ToInt(match2.digits))
                              * (ToInt(match1.digits) - ToInt(match2.digits)))

\* EndeavorGraph._calculate_grid_distance.  A None grid makes re.match raise
\* TypeError, which the bare except turns into None.
CalculateGridDistance(grid1, grid2) ==
    IF grid1 = NoGrid \/ grid2 = NoGrid THEN NoDist
    ELSE LET match1 == ReMatch(grid1)
             match2 == ReMatch(grid2)
         IN  IF match1 = NoMatch \/ match2 = NoMatch THEN NoDist
             ELSE LET x1 == ColToNum(match1.letters)
                      x2 == ColToNum(match2.letters)
                      y1 == ToInt(match1.digits)
                      y2 == ToInt(match2.digits)
                  IN  FloatSqrt((x1 - x2) * (x1 - x2) + (y1 - y2) * (y1 - y2))

\* ----------------------------------------------------------- input records
\* type names and grid labels, character by character
TRoom   == <<"R","o","o","m">>
TLobby  == <<"L","o","b","b","y">>
TStairs == <<"S","t","a","i","r","s">>
TConf   == <<"C","o","n","f"," ","R","o","o","m">>

Rec(id, type, name, level, grid) ==
    [id |-> id, type |-> type, name |-> name, level |-> level, grid |-> grid]

\* the records that input files are made of: five locations of level 1 within
\* reach of each other, the upper end of the stairwell and a room at distance
\* 3 from it on level 2, a record without level, one with a malformed grid,
\* one without grid, and a record that repeats an id
Catalogue == <<
    Rec("a", TRoom,   "Alien",   1,       <<"A","1">>),
    Rec("b", TRoom,   "Borg",    1,       <<"A","3">>),
    Rec("c", TLobby,  "Lobby",   1,       <<"C","5">>),
    Rec("d", TStairs, "Stairs1", 1,       <<"B","2">>),
    Rec("e", TRoom,   "Echo",    1,       <<"C","4">>),
    Rec("f", TStairs, "Stairs2", 2,       <<"B","2">>),
    Rec("g", TConf,   "Forum",   2,       <<"B","5">>),
    Rec("h", TRoom,   "Ghost",   NoLevel, <<"A","2">>),
    Rec("i", TRoom,   "Hall",    1,       <<"7">>),
    Rec("j", TRoom,   "Iris",    1,       NoGrid),
    Rec("a", TLobby,  "Annex",   2,       <<"A","1">>) >>

\* the catalogue records up to this one are the well-formed ones
LastPlain == 7

RECURSIVE Ascending(_)
Ascending(S) ==
    IF S = {} THEN <<>>
    ELSE LET m == CHOOSE x \in S : \A y \in S : x <= y
         IN  <<m>> \o Ascending(S \ {m})

Reverse(s) == [k \in 1..Len(s) |-> s[Len(s) + 1 - k]]

\* an input file: at most MaxRecords records of the catalogue, in catalogue
\* order or in the opposite order
Inputs ==
    LET Pick(S) == [k \in 1..Cardinality(S) |-> Catalogue[Ascending(S)[k]]]
        Lists == { Pick(S) : S \in { T \in SUBSET (1..Len(Catalogue)) :
                                        Cardinality(T) <= MaxRecords } }
    IN  Lists \cup { Reverse(l) : l \in Lists }

\* ------------------------------------------------------------ the database
EmptyDB ==
    [nodes |-> <<>>, order |-> <<>>, levels |-> <<>>,
     locatedOn |-> {}, accessibleFrom |-> {}, stairsTo |-> {},
     connectsTo |-> {}, near |-> {}]

Node(name, level, grid, labels) ==
    [name |-> name, level |-> level, grid |-> grid, labels |-> labels]

\* what an earlier, different input file left behind: an isolated location,
\* and a pair of stairs with their relationships
StaleDB ==
    [nodes |-> [x \in {"y", "z", "w"} |->
                   IF x = "z" THEN Node("Zeta", 9, <<"B","2">>, {TRoom})
                   ELSE IF x = "y" THEN Node("Ypsilon", 8, <<"A","1">>, {<<"S","t","a","i","r">>})
                   ELSE Node("Omega", 7, <<"A","1">>, {<<"S","t","a","i","r">>})],
     order |-> <<"z", "y", "w">>,
     levels |-> [n \in {7, 8} |-> 1],
     locatedOn |-> {<<"y", 8>>, <<"w", 7>>},
     accessibleFrom |-> {},
     stairsTo |-> {},
     connectsTo |-> {<<"y", "w">>, <<"w", "y">>},
     near |-> {}]

PriorDBs == {EmptyDB, StaleDB}

Ids(d) == DOMAIN d.nodes


\* replace(loc.type, " ", "_")
Label(type) == [k \in 1..Len(type) |-> IF type[k] = " " THEN "_" ELSE type[k]]

\* a clear that deletes only the nodes that have a relationship
ClearConnected(d) ==
    LET pairs == d.accessibleFrom \cup d.stairsTo \cup d.connectsTo
                 \cup { <<r.from, r.to>> : r \in d.near }
        tied == { p[1] : p \in pairs } \cup { p[2] : p \in pairs }
                \cup { p[1] : p \in d.locatedOn }
        kept == Ids(d) \ tied
        F[k \in 0..Len(d.order)] ==
            IF k = 0 THEN <<>>
            ELSE IF d.order[k] \in kept THEN Append(F[k - 1], d.order[k]) ELSE F[k - 1]
    IN  [EmptyDB EXCEPT !.nodes = [x \in kept |-> d.nodes[x]],
                        !.order = F[Len(d.order)],
                        !.levels = [n \in DOMAIN d.levels \ { p[2] : p \in d.locatedOn }
                                       |-> d.levels[n]]]

\* MATCH (n) DETACH DELETE n
ClearDatabase(d) == EmptyDB

\* MERGE (n:Location {id: loc.id}) SET n.name, n.level, n.grid; addLabels
\* CREATE in place of the MERGE: a new node for every record
CreateNode(d, loc) ==
    [d EXCEPT
        !.nodes = [x \in Ids(d) \cup {loc.id} |->
                      IF x = loc.id
                      THEN Node(loc.name, loc.level, loc.grid, {Label(loc.type)})
                      ELSE d.nodes[x]],
        !.order = Append(d.order, loc.id)]

MergeNode(d, loc) ==
    LET old == IF loc.id \in Ids(d) THEN d.nodes[loc.id].labels ELSE {}
        n   == Node(loc.name, loc.level, loc.grid, old \cup {Label(loc.type)})
    IN  [d EXCEPT
            !.nodes = [x \in Ids(d) \cup {loc.id} |->
                          IF x = loc.id THEN n ELSE d.nodes[x]],
            !.order = IF loc.id \in Ids(d) THEN d.order
                      ELSE Append(d.order, loc.id)]

\* EndeavorGraph._create_nodes: UNWIND $locations AS loc ...
RECURSIVE CreateNodes(_, _)
CreateNodes(d, locations) ==
    IF locations = <<>> THEN d
    ELSE CreateNodes(MergeNode(d, Head(locations)), Tail(locations))

\* the Level nodes: levels[n] is the number of nodes (:Level {number: n});
\* a pair <<x, n>> of locatedOn is a LOCATED_ON relationship from x to each
\* of them

\* a Level node created for every location: CREATE in place of the MERGE
CreateLocatedOnEach(d) ==
    LET locs == { x \in Ids(d) : d.nodes[x].level # NoLevel }
        new == { d.nodes[x].level : x \in locs }
    IN  [d EXCEPT
            !.levels = [n \in DOMAIN d.levels \cup new |->
                           (IF n \in DOMAIN d.levels THEN d.levels[n] ELSE 0)
                           + Cardinality({ x \in locs : d.nodes[x].level = n })],
            !.locatedOn = d.locatedOn \cup { <<x, d.nodes[x].level>> : x \in locs }]

\* EndeavorGraph._create_located_on_relationships: MERGE creates the Level
\* node of a number only when there is none
CreateLocatedOn(d) ==
    LET locs == { x \in Ids(d) : d.nodes[x].level # NoLevel }
        new == { d.nodes[x].level : x \in locs }
    IN  [d EXCEPT
            !.levels = [n \in DOMAIN d.levels \cup new |->
                           IF n \in DOMAIN d.levels THEN d.levels[n] ELSE 1],
            !.locatedOn = d.locatedOn \cup { <<x, d.nodes[x].level>> : x \in locs }]

\* the same without the test NOT loc:Lobby
CreateAccessibleFromAll(d) ==
    [d EXCEPT !.accessibleFrom = d.accessibleFrom \cup
        { p \in Ids(d) \X Ids(d) :
             /\ TLobby \in d.nodes[p[2]].labels
             /\ d.nodes[p[1]].level # NoLevel
             /\ d.nodes[p[2]].level # NoLevel
             /\ d.nodes[p[2]].level = d.nodes[p[1]].level }]

\* EndeavorGraph._create_accessible_from_relationships; a comparison with a
\* null level is not true in Cypher
CreateAccessibleFrom(d) ==
    [d EXCEPT !.accessibleFrom = d.accessibleFrom \cup
        { p \in Ids(d) \X Ids(d) :      \* p = <<loc, lobby>>
             /\ TLobby \in d.nodes[p[2]].labels
             /\ TLobby \notin d.nodes[p[1]].labels
             /\ d.nodes[p[1]].level # NoLevel
             /\ d.nodes[p[2]].level # NoLevel
             /\ d.nodes[p[2]].level = d.nodes[p[1]].level }]

\* EndeavorGraph._create_stairs_to_relationships
CreateStairsTo(d) ==
    [d EXCEPT !.stairsTo = d.stairsTo \cup
        { p \in Ids(d) \X Ids(d) :
             /\ TStairs \in d.nodes[p[1]].labels
             /\ TStairs \in d.nodes[p[2]].labels
             /\ d.nodes[p[1]].grid # NoGrid
             /\ d.nodes[p[2]].grid # NoGrid
             /\ d.nodes[p[1]].grid = d.nodes[p[2]].grid
             /\ d.nodes[p[1]].level # NoLevel
             /\ d.nodes[p[2]].level # NoLevel
             /\ d.nodes[p[1]].level # d.nodes[p[2]].level }]

\* the weight a STAIRS_TO relationship carries: the MERGE gives it no
\* property, so there is none
StairsToWeight(d, a, b) == NoDist

\* EndeavorGraph._get_all_location_nodes, in the order the nodes were created
GetAllLocationNodes(d) ==
    LET F[k \in 0..Len(d.order)] ==
            IF k = 0 THEN <<>>
            ELSE LET x == d.order[k]
                 IN  IF d.nodes[x].grid # NoGrid
                     THEN Append(F[k - 1], [id |-> x, grid |-> d.nodes[x].grid,
                                            level |-> d.nodes[x].level])
                     ELSE F[k - 1]
    IN  F[Len(d.order)]

\* EndeavorGraph._create_single_near_relationship
\* MERGE (a)-[r:NEAR]-(b) without a direction: a pair that is joined one way
\* is not joined the other way
CreateSingleNearUndirected(d, id1, id2, distance) ==
    IF id1 \in Ids(d) /\ id2 \in Ids(d)
       /\ ~\E r \in d.near : r.from = id2 /\ r.to = id1
    THEN [d EXCEPT !.near =
             { r \in d.near : ~(r.from = id1 /\ r.to = id2) } \cup
             { [from |-> id1, to |-> id2, distance |-> distance] }]
    ELSE d

CreateSingleNear(d, id1, id2, distance) ==
    IF id1 \in Ids(d) /\ id2 \in Ids(d)
    THEN [d EXCEPT !.near =
             { r \in d.near : ~(r.from = id1 /\ r.to = id2) } \cup
             { [from |-> id1, to |-> id2, distance |-> distance] }]
    ELSE d

\* the test without the comparison of the levels
NearDistanceAnyLevel(node1, node2) == CalculateGridDistance(node1.grid, node2.grid)

\* the test of the inner loop of _create_near_relationships
NearDistance(node1, node2) ==
    IF node1.level # node2.level THEN NoDist
    ELSE CalculateGridDistance(node1.grid, node2.grid)

\* the threshold test with < for <=
LinkedBelow(dist) == dist # NoDist /\ dist < NearThreshold * Scale

Linked(dist) == dist # NoDist /\ dist <= NearThreshold * Scale

\* no call of the tool endeavor_rag_directory is running
NoCall == [pc |-> "off", start |-> "", end |-> "", path |-> <<>>, instructions |-> "unbound"]

NoResult == [op |-> "none", start |-> "", end |-> "", out |-> <<>>, raised |-> FALSE]

\* ------------------------------------------------------ the builder script
\* state of the two loops after the pair (i, j): the next pair, or the end
AfterPair(i, j, n) ==
    IF j + 1 < n THEN [pc |-> "near", i |-> i, j |-> j + 1]
    ELSE IF i + 2 < n THEN [pc |-> "near", i |-> i + 1, j |-> i + 2]
    ELSE [pc |-> "done", i |-> 0, j |-> 0]

NoRequest == [user_grids |-> <<>>, start_time |-> 0, end_time |-> 0, top_k |-> 0]

NoPos == [kind |-> "none", col |-> 0, row |-> 0]

\* no call of the parsers or of generate_directions
RenIdle ==
    /\ grids = <<NoGrid, NoGrid>>
    /\ gpc = "off"
    /\ parsed = NoPos
    /\ gdist = NoDist
    /\ infos = <<>>
    /\ dpc = "off"
    /\ di = 0
    /\ steps = <<>>
    /\ dtext = "none"

\* no call of recommend, empty Postgres tables
RecIdle ==
    /\ rooms = <<>>
    /\ bookings = {}
    /\ rq = NoRequest
    /\ rpc = "off"
    /\ avail = <<>>
    /\ ri = 0
    /\ heap = <<>>
    /\ pops = 0
    /\ recs = <<>>

Init ==
    /\ records \in Inputs
    /\ db \in PriorDBs
    /\ pc = "start"
    /\ fetched = <<>>
    /\ li = 0
    /\ lj = 0
    /\ lastBuilt = [graph |-> db, same |-> FALSE]
    /\ res = NoResult
    /\ RecIdle
    /\ ep = NoCall
    /\ RenIdle

\* load_nodes_from_json, first transaction
DoClear ==
    /\ pc = "start"
    /\ db' = ClearDatabase(db)
    /\ pc' = "cleared"
    /\ UNCHANGED <<records, fetched, li, lj, lastBuilt, res, recVars, renVars, ep>>

\* load_nodes_from_json, second transaction
DoCreateNodes ==
    /\ pc = "cleared"
    /\ db' = CreateNodes(db, records)
    /\ pc' = "loaded"
    /\ UNCHANGED <<records, fetched, li, lj, lastBuilt, res, recVars, renVars, ep>>

\* create_relationships, one transaction each
DoLocatedOn ==
    /\ pc = "loaded"
    /\ db' = CreateLocatedOn(db)
    /\ pc' = "located"
    /\ UNCHANGED <<records, fetched, li, lj, lastBuilt, res, recVars, renVars, ep>>

DoAccessibleFrom ==
    /\ pc = "located"
    /\ db' = CreateAccessibleFrom(db)
    /\ pc' = "accessible"
    /\ UNCHANGED <<records, fetched, li, lj, lastBuilt, res, recVars, renVars, ep>>

DoStairsTo ==
    /\ pc = "accessible"
    /\ db' = CreateStairsTo(db)
    /\ pc' = "stairs"
    /\ UNCHANGED <<records, fetched, li, lj, lastBuilt, res, recVars, renVars, ep>>

DoGetNodes ==
    /\ pc = "stairs"
    /\ fetched' = GetAllLocationNodes(db)
    /\ LET n == Len(fetched')
       IN  IF n >= 2 THEN pc' = "near" /\ li' = 0 /\ lj' = 1
           ELSE pc' = "done" /\ li' = 0 /\ lj' = 0
    /\ UNCHANGED <<records, db, lastBuilt, res, recVars, renVars, ep>>

\* one pass of the inner loop whose test fails
NearSkip ==
    /\ pc = "near"
    /\ ~Linked(NearDistance(fetched[li + 1], fetched[lj + 1]))
    /\ LET nx == AfterPair(li, lj, Len(fetched))
       IN  pc' = nx.pc /\ li' = nx.i /\ lj' = nx.j
    /\ UNCHANGED <<records, db, fetched, lastBuilt, res, recVars, renVars, ep>>

\* first execute_write of a pass whose test holds: node1 -> node2
NearFirst ==
    /\ pc = "near"
    /\ LET dist == NearDistance(fetched[li + 1], fetched[lj + 1])
       IN  /\ Linked(dist)
           /\ db' = CreateSingleNear(db, fetched[li + 1].id, fetched[lj + 1].id, dist)
    /\ pc' = "near2"
    /\ UNCHANGED <<records, fetched, li, lj, lastBuilt, res, recVars, renVars, ep>>

\* the pass without its second execute_write
NearSecondOmitted ==
    /\ pc = "near2"
    /\ LET nx == AfterPair(li, lj, Len(fetched))
       IN  pc' = nx.pc /\ li' = nx.i /\ lj' = nx.j
    /\ UNCHANGED <<records, db, fetched, lastBuilt, res, recVars, renVars, ep>>

\* second execute_write of the pass: node2 -> node1
NearSecond ==
    /\ pc = "near2"
    /\ LET dist == NearDistance(fetched[li + 1], fetched[lj + 1])
       IN  db' = CreateSingleNear(db, fetched[lj + 1].id, fetched[li + 1].id, dist)
    /\ LET nx == AfterPair(li, lj, Len(fetched))
       IN  pc' = nx.pc /\ li' = nx.i /\ lj' = nx.j
    /\ UNCHANGED <<records, fetched, lastBuilt, res, recVars, renVars, ep>>

\* the script ends; it is started again later on the same file
Exit ==
    /\ pc = "done"
    /\ lastBuilt' = [graph |-> db, same |-> TRUE]
    /\ pc' = "start"
    /\ fetched' = <<>>
    /\ UNCHANGED <<records, db, li, lj, res, recVars, renVars, ep>>

Build ==
    \/ DoClear \/ DoCreateNodes \/ DoLocatedOn \/ DoAccessibleFrom
    \/ DoStairsTo \/ DoGetNodes \/ NearSkip \/ NearFirst \/ NearSecond \/ Exit

\* ------------------------------------------------------------ route queries
Range(f) == { f[k] : k \in DOMAIN f }

\* the pairs joined, in either direction, by a relationship of one of `types`
Joined(d, types) ==
    LET dir == (IF "NEAR" \in types THEN { <<r.from, r.to>> : r \in d.near } ELSE {})
               \cup (IF "CONNECTS_TO" \in types THEN d.connectsTo ELSE {})
               \cup (IF "STAIRS_TO" \in types THEN d.stairsTo ELSE {})
               \cup (IF "ACCESSIBLE_FROM" \in types THEN d.accessibleFrom ELSE {})
    IN  dir \cup { <<p[2], p[1]>> : p \in dir }

\* breadth-first search: the paths of `paths`, all of one length, are grown
\* by one relationship at a time until some of them end at `end`
RECURSIVE Grow(_, _, _)
Grow(paths, end, joined) ==
    LET hits == { p \in paths : p[Len(p)] = end }
    IN  IF hits # {} THEN hits
        ELSE IF paths = {} THEN {}
        ELSE Grow(UNION { { Append(p, e[2]) :
                              e \in { q \in joined : q[1] = p[Len(p)] /\ q[2] \notin Range(p) } } :
                          p \in paths },
                  end, joined)

\* shortestPath((start)-[:T1|T2*]-(end)) for two different nodes: the paths
\* with the fewest relationships; Cypher returns one of them
ShortestPaths(d, start, end, types) == Grow({<<start>>}, end, Joined(d, types))

\* MATCH (n:Location {name: $name})
Named(d, name) == { x \in Ids(d) : d.nodes[x].name = name }

Names(d, path) == [k \in 1..Len(path) |-> d.nodes[path[k]].name]

Result(op, start, end, out, raised) ==
    [op |-> op, start |-> start, end |-> end, out |-> out, raised |-> raised]

\* the outcomes of the query of get_shortest_path for the relationship types
\* of the pattern.  With start = end Neo4j refuses the query when
\* cypher.forbid_shortestpath_common_nodes is set (the default) and returns
\* no row when it is not.
Answers(d, op, start, end, types) ==
    IF Named(d, start) = {} \/ Named(d, end) = {}
    THEN { Result(op, start, end, <<>>, FALSE) }
    ELSE LET rows == UNION { ShortestPaths(d, p[1], p[2], types) :
                             p \in { q \in Named(d, start) \X Named(d, end) : q[1] # q[2] } }
             same == Named(d, start) \cap Named(d, end) # {}
         IN  (IF same THEN { Result(op, start, end, <<>>, TRUE) } ELSE {})
             \cup (IF rows = {} THEN { Result(op, start, end, <<>>, FALSE) }
                   ELSE { Result(op, start, end, Names(d, p), FALSE) : p \in rows })

\* the names route queries are asked about
QueryNames == {"Alien", "Lobby", "Forum", "Nowhere"}

\* a pattern that also follows ACCESSIBLE_FROM
DirectoryTypesWide == {"NEAR", "CONNECTS_TO", "ACCESSIBLE_FROM"}

DirectoryTypes == {"NEAR", "CONNECTS_TO"}
RagTypes == {"NEAR", "STAIRS_TO"}

\* a query that also removes the NEAR relationships it has read
GetShortestPathConsuming(start, end) ==
    /\ res = NoResult
    /\ RecIdle
    /\ res' \in Answers(db, "directory", start, end, DirectoryTypes)
    /\ db' = [db EXCEPT !.near = {}]
    /\ UNCHANGED <<records, pc, fetched, li, lj, lastBuilt, recVars, renVars, ep>>

\* EndeavorRAG.get_shortest_path of endeavor_rag_directory.py
GetShortestPath(start, end) ==
    /\ res = NoResult
    /\ RecIdle
    /\ res' \in Answers(db, "directory", start, end, DirectoryTypes)
    /\ UNCHANGED <<buildVars, recVars, renVars, ep>>

\* EndeavorRAG.get_shortest_path of endeavor_rag.py
GetShortestPathRag(start, end) ==
    /\ res = NoResult
    /\ RecIdle
    /\ res' \in Answers(db, "rag", start, end, RagTypes)
    /\ UNCHANGED <<buildVars, recVars, renVars, ep>>

\* the caller has its answer; the next query can be asked
Return ==
    /\ res # NoResult
    /\ res' = NoResult
    /\ UNCHANGED <<buildVars, recVars, renVars, ep>>

Route ==
    \/ \E start \in QueryNames, end \in QueryNames : GetShortestPath(start, end)
    \/ \E start \in QueryNames, end \in QueryNames : GetShortestPathRag(start, end)
    \/ Return

\* ------------------------------------------------------------ recommender
\* the characters of names, grids and types in code point order
Ascii == <<" ">> \o Digits \o Upper \o <<"_">> \o
         <<"a","b","c","d","e","f","g","h","i","j","k","l","m",
           "n","o","p","q","r","s","t","u","v","w","x","y","z">>
Code(c) == CHOOSE i \in 1..Len(Ascii) : Ascii[i] = c

\* Python's < on two str
RECURSIVE StrLess(_, _)
StrLess(s, t) ==
    IF t = <<>> THEN FALSE
    ELSE IF s = <<>> THEN TRUE
    ELSE IF Head(s) = Head(t) THEN StrLess(Tail(s), Tail(t))
    ELSE Code(Head(s)) < Code(Head(t))

NoCap == 0 - 1      \* a capacity that is None

\* Python's < on two heap entries (avg_dist, name, grid, capacity, type_):
\* the first components that differ decide; None < int raises TypeError
EntryLess(a, b) ==
    IF a.dist # b.dist THEN (IF a.dist < b.dist THEN "less" ELSE "not")
    ELSE IF a.name # b.name THEN (IF StrLess(a.name, b.name) THEN "less" ELSE "not")
    ELSE IF a.grid # b.grid THEN (IF StrLess(a.grid, b.grid) THEN "less" ELSE "not")
    ELSE IF a.capacity # b.capacity
         THEN (IF a.capacity = NoCap \/ b.capacity = NoCap THEN "error"
               ELSE IF a.capacity < b.capacity THEN "less" ELSE "not")
    ELSE IF a.type # b.type THEN (IF StrLess(a.type, b.type) THEN "less" ELSE "not")
    ELSE "not"

Put(h, pos, item) == [h EXCEPT ![pos] = item]

\* heapq._siftdown; positions are 1-based here, so the parent of pos is
\* pos \div 2.  The result is the heap, and whether a comparison raised.
RECURSIVE SiftDown(_, _, _, _)
SiftDown(h, startpos, pos, newitem) ==
    IF pos > startpos
    THEN LET parentpos == pos \div 2
             cmp == EntryLess(newitem, h[parentpos])
         IN  IF cmp = "error" THEN [heap |-> h, raised |-> TRUE]
             ELSE IF cmp = "less"
                  THEN SiftDown(Put(h, pos, h[parentpos]), startpos, parentpos, newitem)
                  ELSE [heap |-> Put(h, pos, newitem), raised |-> FALSE]
    ELSE [heap |-> Put(h, pos, newitem), raised |-> FALSE]

\* heapq.heappush
HeapPush(h, item) ==
    LET h1 == Append(h, item) IN SiftDown(h1, 1, Len(h1), item)

\* heapq._siftup: the smaller child moves up until a leaf is reached, then
\* newitem is sifted down from there
RECURSIVE SiftUp(_, _, _, _)
SiftUp(h, startpos, pos, newitem) ==
    LET childpos == 2 * pos
        rightpos == childpos + 1
    IN  IF childpos <= Len(h)
        THEN LET cmp == IF rightpos <= Len(h)
                        THEN EntryLess(h[childpos], h[rightpos]) ELSE "less"
                 c == IF cmp = "less" THEN childpos ELSE rightpos
             IN  IF cmp = "error" THEN [heap |-> h, raised |-> TRUE]
                 ELSE SiftUp(Put(h, pos, h[c]), startpos, c, newitem)
        ELSE SiftDown(h, startpos, pos, newitem)

\* a pop that takes the last entry of the list
HeapPopLast(h) ==
    [item |-> h[Len(h)], heap |-> SubSeq(h, 1, Len(h) - 1), raised |-> FALSE]

\* heapq.heappop of a heap that is not empty
HeapPop(h) ==
    LET lastelt == h[Len(h)]
        rest == SubSeq(h, 1, Len(h) - 1)
    IN  IF rest = <<>> THEN [item |-> lastelt, heap |-> rest, raised |-> FALSE]
        ELSE LET up == SiftUp(rest, 1, 1, lastelt)
             IN  [item |-> h[1], heap |-> up.heap, raised |-> up.raised]

\* the operator && read for ranges closed at both ends
OverlapsClosed(lo1, hi1, lo2, hi2) ==
    lo1 <= hi1 /\ lo2 <= hi2 /\ lo1 <= hi2 /\ lo2 <= hi1

\* timeslot && tsrange(start, end): two ranges [lo, hi) overlap when each
\* starts before the other ends; an empty range overlaps nothing
Overlaps(lo1, hi1, lo2, hi2) ==
    lo1 < hi1 /\ lo2 < hi2 /\ lo1 < hi2 /\ lo2 < hi1

\* PostgresBookingManager.is_room_available: SELECT COUNT(*) ... == 0
IsRoomAvailable(room_id, start_time, end_time) ==
    Cardinality({ b \in bookings :
                    b.room_id = room_id /\ Overlaps(b.lo, b.hi, start_time, end_time) }) = 0

\* PostgresBookingManager.get_available_rooms, rows in table order
GetAvailableRooms(start_time, end_time) ==
    LET free(r) == ~\E b \in bookings :
                       b.room_id = r.room_id /\ Overlaps(b.lo, b.hi, start_time, end_time)
        F[k \in 0..Len(rooms)] ==
            IF k = 0 THEN <<>>
            ELSE IF free(rooms[k]) THEN Append(F[k - 1], rooms[k]) ELSE F[k - 1]
    IN  F[Len(rooms)]

\* a list that keeps a distance of 0 where none can be computed
DistancesSentinel(user_grids, grid) ==
    [k \in 1..Len(user_grids) |->
        LET dist == CalculateGridDistance(user_grids[k], grid)
        IN  IF dist # NoDist THEN dist ELSE 0]

\* a list that is empty as soon as one requester gives no distance
DistancesAllOrNone(user_grids, grid) ==
    IF \E k \in 1..Len(user_grids) : CalculateGridDistance(user_grids[k], grid) = NoDist
    THEN <<>>
    ELSE [k \in 1..Len(user_grids) |-> CalculateGridDistance(user_grids[k], grid)]

\* the list `distances` recommend collects for one room
Distances(user_grids, grid) ==
    LET F[k \in 0..Len(user_grids)] ==
            IF k = 0 THEN <<>>
            ELSE LET dist == CalculateGridDistance(user_grids[k], grid)
                 IN  IF dist # NoDist THEN Append(F[k - 1], dist) ELSE F[k - 1]
    IN  F[Len(user_grids)]

RECURSIVE Sum(_)
Sum(ds) == IF ds = <<>> THEN 0 ELSE Head(ds) + Sum(Tail(ds))

\* sum(distances) / len(distances)
Average(ds) == Sum(ds) \div Len(ds)

Min2(a, b) == IF a < b THEN a ELSE b

Room(room_id, name, grid, capacity, type) ==
    [room_id |-> room_id, name |-> name, grid |-> grid, capacity |-> capacity,
     type |-> type]

\* MeetingRoomRecommender.recommend, up to the test of available_rooms
RecStart ==
    /\ rpc = "call"
    /\ avail' = GetAvailableRooms(rq.start_time, rq.end_time)
    /\ IF avail' = <<>> THEN rpc' = "returned" /\ ri' = 0
       ELSE rpc' = "scan" /\ ri' = 1
    /\ heap' = <<>>
    /\ recs' = <<>>
    /\ pops' = 0
    /\ UNCHANGED <<buildVars, renVars, ep, res, rooms, bookings, rq>>

\* one pass of `for room in available_rooms`; after the last one the number
\* of passes of the extraction loop is fixed
RecScan ==
    /\ rpc = "scan"
    /\ LET room == avail[ri]
           distances == Distances(rq.user_grids, room.grid)
           pushed == IF distances # <<>>
                     THEN HeapPush(heap, [dist |-> Average(distances), name |-> room.name,
                                          grid |-> room.grid, capacity |-> room.capacity,
                                          type |-> room.type])
                     ELSE [heap |-> heap, raised |-> FALSE]
       IN  /\ heap' = pushed.heap
           /\ IF pushed.raised THEN rpc' = "raised" /\ ri' = ri /\ pops' = 0
              ELSE IF ri < Len(avail) THEN rpc' = "scan" /\ ri' = ri + 1 /\ pops' = 0
              ELSE /\ ri' = ri
                   /\ pops' = (IF Min2(rq.top_k, Len(heap')) > 0
                               THEN Min2(rq.top_k, Len(heap')) ELSE 0)
                   /\ rpc' = IF pops' > 0 THEN "pop" ELSE "returned"
    /\ UNCHANGED <<buildVars, renVars, ep, res, rooms, bookings, rq, avail, recs>>

\* one pass of the extraction loop
RecPop ==
    /\ rpc = "pop"
    /\ IF heap # <<>>
       THEN LET popped == HeapPop(heap)
            IN  /\ heap' = popped.heap
                /\ IF popped.raised THEN rpc' = "raised" /\ recs' = recs /\ pops' = pops
                   ELSE /\ recs' = Append(recs, [name |-> popped.item.name,
                                                 grid |-> popped.item.grid,
                                                 dist |-> popped.item.dist,
                                                 capacity |-> popped.item.capacity,
                                                 type |-> popped.item.type])
                        /\ pops' = pops - 1
                        /\ rpc' = IF pops' > 0 THEN "pop" ELSE "returned"
       ELSE /\ pops' = pops - 1
            /\ rpc' = (IF pops' > 0 THEN "pop" ELSE "returned")
            /\ UNCHANGED <<heap, recs>>
    /\ UNCHANGED <<buildVars, renVars, ep, res, rooms, bookings, rq, avail, ri>>

Recommend == RecStart \/ RecScan \/ RecPop

\* the rows the table rooms is made of: five rooms at distances 1, 4, 2, 9
\* and 3 from A1, a room as far from A1 as the first, a room with a malformed
\* grid, one without grid, and a second row with the name and grid of the
\* first but with a capacity
RoomCatalogue == <<
    Room("r1", <<"A","b">>, <<"A","2">>,     NoCap, TRoom),
    Room("r2", <<"B","a">>, <<"A","5">>,     NoCap, TRoom),
    Room("r3", <<"C","a">>, <<"A","3">>,     8,     TRoom),
    Room("r4", <<"D","a">>, <<"A","1","0">>, NoCap, TRoom),
    Room("r5", <<"E","a">>, <<"A","4">>,     NoCap, TLobby),
    Room("r6", <<"A","a">>, <<"B","1">>,     NoCap, TRoom),
    Room("r7", <<"F","a">>, <<"7">>,         NoCap, TRoom),
    Room("r8", <<"G","a">>, NoGrid,          NoCap, TRoom),
    Room("r9", <<"A","b">>, <<"A","2">>,     4,     TRoom) >>

RoomTables ==
    LET Pick(S) == [k \in 1..Cardinality(S) |-> RoomCatalogue[Ascending(S)[k]]]
        Lists == { Pick(S) : S \in { T \in SUBSET (1..Len(RoomCatalogue)) :
                                        Cardinality(T) <= MaxRooms } }
    IN  Lists \cup { Reverse(l) : l \in Lists }

Booking(room_id, lo, hi) == [room_id |-> room_id, lo |-> lo, hi |-> hi]

BookingTables == { {}, { Booking("r2", 9, 11), Booking("r4", 11, 12), Booking("r6", 10, 12) } }

Windows == { <<10, 11>>, <<11, 12>> }

UserGridLists == { <<>>, << <<"A","1">> >>, << <<"A","1">>, <<"C","1">> >>,
                   << <<"A","1">>, <<"x">> >> }

InitRec ==
    /\ records = <<>>
    /\ db = EmptyDB
    /\ pc = "off"
    /\ fetched = <<>>
    /\ li = 0
    /\ lj = 0
    /\ lastBuilt = [graph |-> EmptyDB, same |-> FALSE]
    /\ res = NoResult
    /\ rooms \in RoomTables
    /\ bookings \in BookingTables
    /\ \E g \in UserGridLists, w \in Windows, k \in 0..MaxK :
          rq = [user_grids |-> g, start_time |-> w[1], end_time |-> w[2], top_k |-> k]
    /\ rpc = "call"
    /\ avail = <<>>
    /\ ri = 0
    /\ heap = <<>>
    /\ pops = 0
    /\ recs = <<>>
    /\ RenIdle
    /\ ep = NoCall

SpecRec == InitRec /\ [][Recommend]_vars

\* input files of the specification with queries: the well-formed records
RouteInputs == { l \in Inputs : \A k \in 1..Len(l) :
                    \E c \in 1..LastPlain : l[k] = Catalogue[c] /\
                    (k > 1 => \E b \in 1..(c - 1) : l[k - 1] = Catalogue[b]) }

InitRoute ==
    /\ records \in RouteInputs
    /\ db \in PriorDBs
    /\ pc = "start"
    /\ fetched = <<>>
    /\ li = 0
    /\ lj = 0
    /\ lastBuilt = [graph |-> db, same |-> FALSE]
    /\ res = NoResult
    /\ RecIdle
    /\ ep = NoCall
    /\ RenIdle

SpecBuild == Init /\ [][Build]_vars

Next == Build \/ Route

Spec == InitRoute /\ [][Next]_vars

\* ------------------------------------------------------------------ claims
\* the script has run to its end
Built == pc = "done"

\* a step in which a route query is answered
Answered == res = NoResult /\ res' # NoResult

TypesOf(op) == IF op = "rag" THEN RagTypes ELSE DirectoryTypes

NodeOf(d, name) == CHOOSE x \in Named(d, name) : TRUE

\* every simple path from `start`, grown from the paths of `paths`
RECURSIVE Walks(_, _)
Walks(paths, joined) ==
    LET more == UNION { { Append(p, e[2]) :
                          e \in { q \in joined : q[1] = p[Len(p)] /\ q[2] \notin Range(p) } } :
                        p \in paths }
    IN  IF more = {} THEN paths ELSE paths \cup Walks(more, joined)

PathsBetween(d, start, end, types) ==
    { p \in Walks({<<start>>}, Joined(d, types)) : p[Len(p)] = end }

\* the distance property of the relationship that joins x and y; a
\* relationship without the property adds nothing to the sum
EdgeWeight(d, x, y) ==
    LET ds == { r.distance : r \in { q \in d.near :
                   (q.from = x /\ q.to = y) \/ (q.from = y /\ q.to = x) } }
    IN  IF ds = {} THEN 0 ELSE CHOOSE w \in ds : \A v \in ds : w <= v

RECURSIVE PathWeight(_, _)
PathWeight(d, p) ==
    IF Len(p) < 2 THEN 0
    ELSE EdgeWeight(d, p[1], p[2]) + PathWeight(d, Tail(p))

IdsOf(d, names) == [k \in 1..Len(names) |-> NodeOf(d, names[k])]

\* C1: on a finished graph the path a route query returns has the least total distance among
\* the paths between its two ends over the relationships the router follows.
C1_RouteIsLightest ==
    [][(Answered /\ Built /\ res'.out # <<>>) =>
          \A q \in PathsBetween(db, NodeOf(db, res'.start), NodeOf(db, res'.end),
                                TypesOf(res'.op)) :
              PathWeight(db, IdsOf(db, res'.out)) <= PathWeight(db, q)]_vars

\* C2: a returned path starts at the start name, ends at the end name, and
\* each of its steps is a NEAR, STAIRS_TO or CONNECTS_TO relationship between
\* two locations; without such a chain the answer is empty.
C2_PathFollowsNearOrVertical ==
    [][Answered =>
         LET out == res'.out
             walk == Joined(db, {"NEAR", "STAIRS_TO", "CONNECTS_TO"})
         IN  /\ out # <<>> =>
                  /\ out[1] = res'.start
                  /\ out[Len(out)] = res'.end
                  /\ \A k \in 1..Len(out) : Named(db, out[k]) # {}
                  /\ \A k \in 1..(Len(out) - 1) :
                        <<NodeOf(db, out[k]), NodeOf(db, out[k + 1])>> \in walk
             /\ ( /\ Named(db, res'.start) # {}
                  /\ Named(db, res'.end) # {}
                  /\ PathsBetween(db, NodeOf(db, res'.start), NodeOf(db, res'.end),
                                  {"NEAR", "STAIRS_TO", "CONNECTS_TO"}) = {} )
                => out = <<>>]_vars

\* the router went round by Borg although Alien is ACCESSIBLE_FROM the Lobby
C2_Witness ==
    /\ res.out = <<"Alien", "Borg", "Lobby">>
    /\ pc = "done"
    /\ <<"a", "c">> \in db.accessibleFrom

\* what the caller of a query holds
Seen(r) == <<r.out, r.raised>>

\* two locations of the graph that no chain of relationships joins
Apart(d, op, start, end) ==
    /\ start # end
    /\ Named(d, start) # {}
    /\ Named(d, end) # {}
    /\ PathsBetween(d, NodeOf(d, start), NodeOf(d, end), TypesOf(op)) = {}

\* C3: on a finished graph the answer to a query with a name that is not in
\* the graph differs from every answer to a query about two locations that are not
\* connected.
C3_NotFoundIsNotNoPath ==
    [][(Answered /\ Built /\ (Named(db, res'.start) = {} \/ Named(db, res'.end) = {})) =>
          \A s \in QueryNames, e \in QueryNames :
              Apart(db, res'.op, s, e) =>
                  \A r \in Answers(db, res'.op, s, e, TypesOf(res'.op)) :
                      Seen(r) # Seen(res')]_vars

\* C4: on a finished graph a query from a location to itself returns the
\* path of that one location.
C4_SameStartAndEnd ==
    [][(Answered /\ Built /\ res'.start = res'.end /\ Named(db, res'.start) # {}) =>
          (res'.out = <<res'.start>> /\ ~res'.raised)]_vars

Level(d, x) == d.nodes[x].level

\* C5: after construction NEAR a->b exists iff NEAR b->a exists, and the two
\* carry the same distance.
C5_NearIsSymmetric ==
    Built => \A r \in db.near :
                 [from |-> r.to, to |-> r.from, distance |-> r.distance] \in db.near

C5_Witness == Built /\ db.near # {}

\* C6: after construction every NEAR relationship joins two locations of the
\* same level.
C6_NearStaysOnLevel ==
    Built => \A r \in db.near : Level(db, r.from) = Level(db, r.to)

\* the two ends of the stairwell have the same grid, and NEAR exists elsewhere
C6_Witness ==
    /\ Built
    /\ {"d", "f"} \subseteq Ids(db)
    /\ db.nodes["d"].grid = db.nodes["f"].grid
    /\ Level(db, "d") # Level(db, "f")
    /\ db.near # {}

\* column and row of a grid that parses, A = 1
Column(grid) == ColToNum(ReMatch(grid).letters)
Row(grid) == ToInt(ReMatch(grid).digits)
Parses(grid) == grid # NoGrid /\ ReMatch(grid) # NoMatch
Square(grid1, grid2) ==
    (Column(grid1) - Column(grid2)) * (Column(grid1) - Column(grid2))
    + (Row(grid1) - Row(grid2)) * (Row(grid1) - Row(grid2))

\* C7: after construction two different locations of one level whose grids
\* parse are joined by NEAR iff their Euclidean distance is at most 3, and
\* the relationship carries that distance.
C7_NearIffWithinThree ==
    Built =>
      \A x \in Ids(db), y \in Ids(db) :
        ( /\ x # y
          /\ Level(db, x) # NoLevel
          /\ Level(db, x) = Level(db, y)
          /\ Parses(db.nodes[x].grid)
          /\ Parses(db.nodes[y].grid) ) =>
        LET sq == Square(db.nodes[x].grid, db.nodes[y].grid)
            rs == { r \in db.near : r.from = x /\ r.to = y }
        IN  /\ (rs # {}) <=> (sq <= 3 * 3)
            /\ \A r \in rs : r.distance = FloatSqrt(sq)

\* A1 and A3 are joined with distance 2; A1 and C5 are not joined
C7_Witness ==
    /\ Built
    /\ [from |-> "a", to |-> "b", distance |-> 2 * Scale] \in db.near
    /\ "c" \in Ids(db)
    /\ Level(db, "a") = Level(db, "c")
    /\ ~\E r \in db.near : r.from = "a" /\ r.to = "c"

\* C8: a second run of the script on the same file leaves the database as
\* the first run left it.
C8_RebuildIsIdempotent ==
    (Built /\ lastBuilt.same) => db = lastBuilt.graph

C8_Witness ==
    /\ Built
    /\ lastBuilt.same
    /\ db.near # {}
    /\ db.stairsTo # {}
    /\ db.accessibleFrom # {}

\* the graph the script builds from a file, all steps at once
RECURSIVE NearLoop(_, _, _, _)
NearLoop(d, nodes, i, j) ==
    LET dist == NearDistance(nodes[i + 1], nodes[j + 1])
        d2   == IF Linked(dist)
                THEN CreateSingleNear(
                         CreateSingleNear(d, nodes[i + 1].id, nodes[j + 1].id, dist),
                         nodes[j + 1].id, nodes[i + 1].id, dist)
                ELSE d
        nx   == AfterPair(i, j, Len(nodes))
    IN  IF nx.pc = "done" THEN d2 ELSE NearLoop(d2, nodes, nx.i, nx.j)

BuildAll(locations) ==
    LET d == CreateStairsTo(CreateAccessibleFrom(CreateLocatedOn(
                 CreateNodes(ClearDatabase(EmptyDB), locations))))
        nodes == GetAllLocationNodes(d)
    IN  IF Len(nodes) < 2 THEN d ELSE NearLoop(d, nodes, 0, 1)

\* C9: a query answered while the script runs gets an answer of the graph
\* the previous run left or of the graph this run builds.
C9_QueriesSeeWholeGraphs ==
    [][Answered =>
          res' \in Answers(lastBuilt.graph, res'.op, res'.start, res'.end, TypesOf(res'.op))
                   \cup Answers(BuildAll(records), res'.op, res'.start, res'.end,
                                TypesOf(res'.op))]_vars

\* the step operators and the script agree on the finished graph
BuildAllAgrees == Built => db = BuildAll(records)

\* the rooms of the table that no booking blocks in the window of the call
Free == { k \in 1..Len(rooms) :
            ~\E b \in bookings : b.room_id = rooms[k].room_id
                                 /\ b.lo < rq.end_time /\ rq.start_time < b.hi }

\* those of them with a mean distance to the requesters
Rankable == { k \in Free : \E u \in 1..Len(rq.user_grids) :
                Parses(rq.user_grids[u]) /\ Parses(rooms[k].grid) }

Mean(k) == Average(Distances(rq.user_grids, rooms[k].grid))

\* C10: the list recommend returns is sorted by mean distance, has
\* min(top_k, number of rankable available rooms) entries, and no rankable
\* available room left out is closer than a room returned.
C10_TopKByMeanDistance ==
    rpc = "returned" =>
      /\ \A i \in 1..Len(recs), j \in 1..Len(recs) : i < j => recs[i].dist <= recs[j].dist
      /\ Len(recs) = Min2(rq.top_k, Cardinality(Rankable))
      /\ \E chosen \in SUBSET Rankable :
            /\ Cardinality(chosen) = Len(recs)
            /\ \E f \in [1..Len(recs) -> chosen] :
                  /\ \A i \in 1..Len(recs), j \in 1..Len(recs) : f[i] = f[j] => i = j
                  /\ \A i \in 1..Len(recs) :
                        /\ recs[i].name = rooms[f[i]].name
                        /\ recs[i].grid = rooms[f[i]].grid
                        /\ recs[i].dist = Mean(f[i])
            /\ \A k \in Rankable \ chosen, i \in 1..Len(recs) : recs[i].dist <= Mean(k)

\* top_k = 3 over five rooms at mean distances 1, 4, 2, 9, 3 gave 1, 2, 3
C10_Witness ==
    /\ rpc = "returned"
    /\ rq.top_k = 3
    /\ rq.user_grids = << <<"A","1">> >>
    /\ rooms = SubSeq(RoomCatalogue, 1, 5)
    /\ Len(avail) = 5
    /\ [k \in 1..5 |-> Mean(k)] = <<1 * Scale, 4 * Scale, 2 * Scale, 9 * Scale, 3 * Scale>>
    /\ [k \in 1..Len(recs) |-> recs[k].dist] = <<1 * Scale, 2 * Scale, 3 * Scale>>

\* a returned entry is the row k of the table
IsRow(rec, k) ==
    /\ rec.name = rooms[k].name
    /\ rec.grid = rooms[k].grid
    /\ rec.capacity = rooms[k].capacity
    /\ rec.type = rooms[k].type

\* two rooms that can be ranked and whose heap entries Python cannot compare
Incomparable ==
    \E k \in Rankable, l \in Rankable :
        /\ rooms[k].name = rooms[l].name
        /\ rooms[k].grid = rooms[l].grid
        /\ rooms[k].capacity = NoCap
        /\ rooms[l].capacity # NoCap

RoomNo(room_id) == CHOOSE c \in 1..Len(RoomCatalogue) : RoomCatalogue[c].room_id = room_id

\* C12: rooms of equal mean distance come back in ascending order of their
\* id, and at the cut-off the room of smaller id is the one kept.
C12_TiesBrokenById ==
    rpc = "returned" =>
      /\ \A i \in 1..Len(recs), j \in 1..Len(recs) :
            (i < j /\ recs[i].dist = recs[j].dist) =>
               \A k \in Rankable, l \in Rankable :
                  (IsRow(recs[i], k) /\ IsRow(recs[j], l) /\ ~IsRow(recs[i], l))
                      => RoomNo(rooms[k].room_id) < RoomNo(rooms[l].room_id)
      /\ \A i \in 1..Len(recs), l \in Rankable :
            (recs[i].dist = Mean(l) /\ \A j \in 1..Len(recs) : ~IsRow(recs[j], l)) =>
               \A k \in Rankable :
                  IsRow(recs[i], k) => RoomNo(rooms[k].room_id) < RoomNo(rooms[l].room_id)

\* ------------------------------------------------- grid parsing, directions
RECURSIVE Pow26(_)
Pow26(i) == IF i = 0 THEN 1 ELSE 26 * Pow26(i - 1)

\* the sum over the letters as written, not reversed: the first letter
\* weighs least
RECURSIVE ColumnSumForward(_, _)
ColumnSumForward(letters, i) ==
    IF i >= Len(letters) THEN 0
    ELSE (OrdA(letters[i + 1]) + 1) * Pow26(i) + ColumnSumForward(letters, i + 1)

\* sum((ord(c) - ord('A') + 1) * (26 ** i) for i, c in
\* enumerate(reversed(letters))), from index i on
RECURSIVE ColumnSum(_, _)
ColumnSum(letters, i) ==
    IF i >= Len(letters) THEN 0
    ELSE (OrdA(letters[Len(letters) - i]) + 1) * Pow26(i) + ColumnSum(letters, i + 1)

Raised == [kind |-> "raised", col |-> 0, row |-> 0]

\* EndeavorRAG.parse_grid.  re.match raises TypeError on a grid that is
\* None, and nothing in parse_grid catches it.
ParseGrid(grid) ==
    IF grid = NoGrid THEN Raised
    ELSE LET match == ReMatch(grid)
         IN  IF match = NoMatch THEN NoPos
             ELSE [kind |-> "pos", col |-> ColumnSum(match.letters, 0),
                   row |-> ToInt(match.digits)]

\* the labels the parsers are tried on
GridLabels ==
    { <<"A","1">>, <<"F","8">>, <<"Z","3">>, <<"A","A","1","2">>, <<"A","A","3">>,
      <<"B","C","1","0">>, <<>>, <<"7">>, <<"A","B">>, <<"a","1">>,
      <<"A","1","x">>, <<"1","A">>, <<" ","A","1">>, NoGrid }

\* parse_grid(grid1)
CallParseGrid ==
    /\ gpc = "call"
    /\ parsed' = ParseGrid(grids[1])
    /\ gpc' = "parsed"
    /\ UNCHANGED <<buildVars, res, recVars, ep, grids, gdist, dirVars>>

\* _calculate_grid_distance(grid1, grid2)
CallCalculateGridDistance ==
    /\ gpc = "parsed"
    /\ gdist' = CalculateGridDistance(grids[1], grids[2])
    /\ gpc' = "done"
    /\ UNCHANGED <<buildVars, res, recVars, ep, grids, parsed, dirVars>>

Parsing == CallParseGrid \/ CallCalculateGridDistance

InitGrid ==
    /\ records = <<>>
    /\ db = EmptyDB
    /\ pc = "off"
    /\ fetched = <<>>
    /\ li = 0
    /\ lj = 0
    /\ lastBuilt = [graph |-> EmptyDB, same |-> FALSE]
    /\ res = NoResult
    /\ RecIdle
    /\ ep = NoCall
    /\ grids \in GridLabels \X GridLabels
    /\ gpc = "call"
    /\ parsed = NoPos
    /\ gdist = NoDist
    /\ infos = <<>>
    /\ dpc = "off"
    /\ di = 0
    /\ steps = <<>>
    /\ dtext = "none"

SpecGrid == InitGrid /\ [][Parsing]_vars

\* dirs of _vector_to_direction, by angle 0, 45, ..., 315
Dirs == <<"south", "southeast", "east", "northeast",
          "north", "northwest", "west", "southwest">>

\* EndeavorRAG._vector_to_direction.  The angle of (dx, dy) in [0, 360) is
\* the quarter turn it lies in plus the angle r of the vector (u, w) turned
\* back into the first quarter; r < 22.5 iff (u + w)^2 < 2 u^2 and r < 67.5
\* iff w <= u or (w - u)^2 < 2 u^2.  min takes the entry of dirs closest to
\* the angle without wrapping round, so every angle above 292.5 gives the
\* last entry.  atan2(0, 0) is 0.
VectorToDirection(dx, dy) ==
    IF dx = 0 /\ dy = 0 THEN Dirs[1]
    ELSE LET quarter == IF dx > 0 /\ dy >= 0 THEN 0
                        ELSE IF dx <= 0 /\ dy > 0 THEN 1
                        ELSE IF dx < 0 /\ dy <= 0 THEN 2
                        ELSE 3
             u == IF quarter = 0 THEN dx ELSE IF quarter = 1 THEN dy
                  ELSE IF quarter = 2 THEN 0 - dx ELSE 0 - dy
             w == IF quarter = 0 THEN dy ELSE IF quarter = 1 THEN 0 - dx
                  ELSE IF quarter = 2 THEN 0 - dy ELSE dx
             part == IF (u + w) * (u + w) < 2 * u * u THEN 0
                     ELSE IF w <= u \/ (w - u) * (w - u) < 2 * u * u THEN 1
                     ELSE 2
             sector == 2 * quarter + part
         IN  IF sector >= Len(Dirs) THEN Dirs[Len(Dirs)] ELSE Dirs[sector + 1]

\* round((dx ** 2 + dy ** 2) ** 0.5 * 1.5, 1), in tenths of a meter: the
\* integer nearest to 15 * sqrt(d2)
StepDistance(dx, dy) == (ISqrt(900 * (dx * dx + dy * dy)) + 1) \div 2

Info(name, grid, level) == [name |-> name, grid |-> grid, level |-> level]

\* the step generate_directions formats for cur and nxt
Step(cur, nxt, pos1, pos2) ==
    LET dx == pos2.col - pos1.col
        dy == pos2.row - pos1.row
    IN  [from |-> cur.name, direction |-> VectorToDirection(dx, dy),
         distance |-> StepDistance(dx, dy), to |-> nxt.name,
         level |-> IF cur.level # nxt.level THEN nxt.level ELSE NoLevel]

\* generate_directions, up to the loop
DirCall ==
    /\ dpc = "call"
    /\ IF Len(infos) < 2
       THEN dpc' = "returned" /\ dtext' = "already"
       ELSE dpc' = "loop" /\ dtext' = dtext
    /\ di' = 0
    /\ steps' = <<>>
    /\ UNCHANGED <<buildVars, res, recVars, ep, gridVars, infos>>

\* one pass of `for i in range(len(node_infos) - 1)`, and after the last
\* one the return of "\n".join(steps)
DirStep ==
    /\ dpc = "loop"
    /\ LET cur == infos[di + 1]
           nxt == infos[di + 2]
           pos1 == ParseGrid(cur.grid)
           pos2 == ParseGrid(nxt.grid)
           last == di + 2 = Len(infos)
       IN  IF pos1 = Raised \/ pos2 = Raised
           THEN dpc' = "raised" /\ UNCHANGED <<di, steps, dtext>>
           ELSE /\ steps' = IF pos1 = NoPos \/ pos2 = NoPos THEN steps
                            ELSE Append(steps, Step(cur, nxt, pos1, pos2))
                /\ di' = di + 1
                /\ dpc' = IF last THEN "returned" ELSE "loop"
                /\ dtext' = IF last THEN "joined" ELSE dtext
    /\ UNCHANGED <<buildVars, res, recVars, ep, gridVars, infos>>

Directions == DirCall \/ DirStep

MaxPath == 3        \* longest node_infos given to generate_directions

\* rows get_node_details can return: two nodes on one coordinate, a node on
\* another level, a node three columns to the right, a node without grid
\* and one with a malformed grid
InfoCatalogue == <<
    Info("Alien",   <<"A","1">>, 1),
    Info("Borg",    <<"A","3">>, 1),
    Info("Copy",    <<"A","1">>, 1),
    Info("Stairs2", <<"B","2">>, 2),
    Info("Dock",    <<"D","2">>, 1),
    Info("Iris",    NoGrid,      1),
    Info("Hall",    <<"7">>,     1) >>

InfoLists ==
    UNION { [1..n -> { InfoCatalogue[c] : c \in 1..Len(InfoCatalogue) }] : n \in 0..MaxPath }

InitDir ==
    /\ records = <<>>
    /\ db = EmptyDB
    /\ pc = "off"
    /\ fetched = <<>>
    /\ li = 0
    /\ lj = 0
    /\ lastBuilt = [graph |-> EmptyDB, same |-> FALSE]
    /\ res = NoResult
    /\ RecIdle
    /\ ep = NoCall
    /\ grids = <<NoGrid, NoGrid>>
    /\ gpc = "off"
    /\ parsed = NoPos
    /\ gdist = NoDist
    /\ infos \in InfoLists
    /\ dpc = "call"
    /\ di = 0
    /\ steps = <<>>
    /\ dtext = "none"

SpecDir == InitDir /\ [][Directions]_vars

\* ------------------------------------------------------- claims on parsing
\* one or more uppercase letters followed by one or more digits, and the
\* place where the digits begin
LettersOf(grid) ==
    { n \in 1..(Len(grid) - 1) :
        /\ \A k \in 1..n : IsUpper(grid[k])
        /\ \A k \in (n + 1)..Len(grid) : IsDigit(grid[k]) }
IsLabel(grid) == grid # NoGrid /\ LettersOf(grid) # {}

\* value of a numeral in the base, its digits given by their values
RECURSIVE Numeral(_, _)
Numeral(values, base) ==
    IF values = <<>> THEN 0
    ELSE Numeral(SubSeq(values, 1, Len(values) - 1), base) * base + values[Len(values)]

\* column (A = 1, Z = 26, AA = 27) and row of a label
LabelColumn(grid) ==
    LET n == CHOOSE m \in LettersOf(grid) : TRUE
    IN  Numeral([k \in 1..n |-> OrdA(grid[k]) + 1], 26)
LabelRow(grid) ==
    LET n == CHOOSE m \in LettersOf(grid) : TRUE
    IN  Numeral([k \in 1..(Len(grid) - n) |-> DigitVal(grid[n + k])], 10)

\* C13: for a label of uppercase letters followed by digits, parse_grid
\* gives the base-26 column with A = 1 and the integer row (F8 is column 6,
\* row 8; AA12 is column 27, row 12), and _calculate_grid_distance measures
\* between such columns and rows.
C13_ColumnsCountFromOne ==
    /\ (gpc # "call" /\ IsLabel(grids[1])) =>
          /\ parsed = [kind |-> "pos", col |-> LabelColumn(grids[1]), row |-> LabelRow(grids[1])]
          /\ grids[1] = <<"F","8">> => (parsed.col = 6 /\ parsed.row = 8)
          /\ grids[1] = <<"A","A","1","2">> => (parsed.col = 27 /\ parsed.row = 12)
    /\ (gpc = "done" /\ IsLabel(grids[1]) /\ IsLabel(grids[2])) =>
          LET dc == LabelColumn(grids[1]) - LabelColumn(grids[2])
              dr == LabelRow(grids[1]) - LabelRow(grids[2])
          IN  /\ gdist # NoDist
              /\ gdist * gdist <= (dc * dc + dr * dr) * Scale * Scale
              /\ (gdist + 1) * (gdist + 1) > (dc * dc + dr * dr) * Scale * Scale

\* AA12 was parsed, and its distance to Z3 computed
C13_Witness ==
    /\ gpc = "done"
    /\ grids = << <<"A","A","1","2">>, <<"Z","3">> >>
    /\ parsed.col = 27
    /\ gdist > 9 * Scale

\* C14: neither parser raises, and for a grid that is missing, empty, all
\* digits, all letters or otherwise not letters followed by digits the
\* result is no coordinate and no distance.
C14_ParsersNeverRaise ==
    /\ parsed # Raised
    /\ (gpc # "call" /\ ~IsLabel(grids[1])) => parsed = NoPos
    /\ (gpc = "done" /\ (~IsLabel(grids[1]) \/ ~IsLabel(grids[2]))) => gdist = NoDist

\* ---------------------------------------------- claims on the other edges
Stairs(d) == { x \in Ids(d) : TStairs \in d.nodes[x].labels }

\* two stairs on different levels with the same grid value
SameStairwell(d, a, b) ==
    /\ d.nodes[a].grid # NoGrid
    /\ d.nodes[a].grid = d.nodes[b].grid
    /\ Level(d, a) # NoLevel
    /\ Level(d, b) # NoLevel
    /\ Level(d, a) # Level(d, b)

\* after construction STAIRS_TO joins two stairs iff they are one stairwell,
\* and it does so in both directions
StairsJoinStairwells ==
    Built =>
      /\ \A a \in Stairs(db), b \in Stairs(db) :
            (<<a, b>> \in db.stairsTo) <=> SameStairwell(db, a, b)
      /\ \A p \in db.stairsTo :
            {p[1], p[2]} \subseteq Stairs(db) /\ <<p[2], p[1]>> \in db.stairsTo

\* C15: after construction a vertical connection joins two stairs iff they
\* are on different levels with the same grid, it exists in both directions,
\* and both directions carry one fixed weight.
C15_StairsJoinedWithFixedWeight ==
    /\ StairsJoinStairwells
    /\ Built =>
          \A p \in db.stairsTo, q \in db.stairsTo :
              /\ StairsToWeight(db, p[1], p[2]) # NoDist
              /\ StairsToWeight(db, p[1], p[2]) = StairsToWeight(db, q[1], q[2])

Lobbies(d) == { x \in Ids(d) : TLobby \in d.nodes[x].labels }

\* C16: after construction ACCESSIBLE_FROM leads from x to l iff x is no
\* lobby, l is a lobby and both are on the same level; no lobby has an
\* outgoing one, and a level without lobby has none.
C16_AccessibleFromLobbyOfLevel ==
    Built =>
      /\ \A x \in Ids(db), l \in Ids(db) :
            (<<x, l>> \in db.accessibleFrom) <=>
               ( /\ x \notin Lobbies(db)
                 /\ l \in Lobbies(db)
                 /\ Level(db, x) # NoLevel
                 /\ Level(db, x) = Level(db, l) )
      /\ \A p \in db.accessibleFrom : {p[1], p[2]} \subseteq Ids(db) /\ p[1] \notin Lobbies(db)
      /\ \A x \in Ids(db) :
            (~\E l \in Lobbies(db) : Level(db, l) = Level(db, x)) =>
               ~\E p \in db.accessibleFrom : p[1] = x

\* a room reaches the lobby of its level, and a room on a level without
\* lobby reaches none
C16_Witness ==
    /\ Built
    /\ <<"a", "c">> \in db.accessibleFrom
    /\ "g" \in Ids(db)
    /\ Lobbies(db) = {"c"}
    /\ Level(db, "g") # Level(db, "c")
    /\ ~\E p \in db.accessibleFrom : p[1] = "g"

\* the LOCATED_ON relationships that leave x
LocatedOnCount(d, x) ==
    LET ns == { p[2] : p \in { q \in d.locatedOn : q[1] = x } }
        F[S \in SUBSET ns] ==
            IF S = {} THEN 0
            ELSE LET n == CHOOSE m \in S : TRUE IN d.levels[n] + F[S \ {n}]
    IN  F[ns]

\* C17: after construction there is one Level node for each level value a
\* location has and no other, a location with a level has exactly one
\* LOCATED_ON relationship, to the Level node of its level, and a location
\* without level has none.
C17_OneLevelNodePerLevel ==
    Built =>
      /\ DOMAIN db.levels = { Level(db, x) : x \in Ids(db) } \ {NoLevel}
      /\ \A n \in DOMAIN db.levels : db.levels[n] = 1
      /\ \A x \in Ids(db) :
            IF Level(db, x) # NoLevel
            THEN /\ LocatedOnCount(db, x) = 1
                 /\ \A p \in db.locatedOn : p[1] = x => p[2] = Level(db, x)
            ELSE LocatedOnCount(db, x) = 0
      /\ \A p \in db.locatedOn : p[1] \in Ids(db)

\* two locations share level 1, one is on level 2 and one has no level
C17_Witness ==
    /\ Built
    /\ {"a", "b", "g", "h"} \subseteq Ids(db)
    /\ Level(db, "a") = 1
    /\ Level(db, "b") = 1
    /\ Level(db, "g") = 2
    /\ Level(db, "h") = NoLevel
    /\ DOMAIN db.levels = {1, 2}
    /\ db.locatedOn = {<<"a", 1>>, <<"b", 1>>, <<"g", 2>>}

\* a grid that is missing or does not begin with letters followed by digits
StartsWithLabel(grid) == \E n \in 1..Len(grid) : IsLabel(SubSeq(grid, 1, n))
Malformed(grid) == grid = NoGrid \/ ~StartsWithLabel(grid)

\* the nodes have been created in this run of the script
Loaded == pc \in {"loaded", "located", "accessible", "stairs", "near", "near2", "done"}

\* the record is the last one of the file with its id
LastOfId(k) == \A m \in (k + 1)..Len(records) : records[m].id # records[k].id

\* C18: a record whose grid is missing or malformed does not stop the
\* build: the script is never at a step it cannot take, the node of the
\* record is there with its name and level, and no NEAR relationship begins
\* or ends at it.
BadGridKept ==
    Loaded =>
      \A k \in 1..Len(records) :
          Malformed(records[k].grid) =>
             /\ records[k].id \in Ids(db)
             /\ LastOfId(k) =>
                   /\ db.nodes[records[k].id].name = records[k].name
                   /\ db.nodes[records[k].id].level = records[k].level
                   /\ ~\E r \in db.near : r.from = records[k].id \/ r.to = records[k].id

\* the script is at a step it can take: a call that returns, or a pass of
\* the loop over a pair of the fetched nodes
CanStep ==
    \/ pc \in {"start", "cleared", "loaded", "located", "accessible", "stairs", "done"}
    \/ /\ pc \in {"near", "near2"}
       /\ 0 <= li /\ li < lj /\ lj < Len(fetched)
       /\ pc = "near2" => Linked(NearDistance(fetched[li + 1], fetched[lj + 1]))

C19_NoStepOfLengthZero ==
    /\ dpc = "returned" => \A k \in 1..Len(steps) : steps[k].distance # 0
    /\ dpc = "raised" => \E k \in 1..Len(infos) : infos[k].grid = NoGrid

\* C20: for a path of one node generate_directions returns the empty
\* sequence of steps, and no text saying that one is already there.
C20_OneNodeGivesNoStep ==
    (dpc = "returned" /\ Len(infos) = 1) => (dtext = "joined" /\ steps = <<>>)

\* the eight octants by angle 0, 45, ..., 315: their unit vectors in
\* ten-thousandths
Octants == << <<10000, 0>>, <<7071, 7071>>, <<0, 10000>>, <<0 - 7071, 7071>>,
              <<0 - 10000, 0>>, <<0 - 7071, 0 - 7071>>, <<0, 0 - 10000>>, <<7071, 0 - 7071>> >>

\* the octant nearest on the circle to the angle of (dx, dy) is the one whose
\* unit vector has the largest product with it; of two equally near ones the
\* one of lower angle
NearestOctant(dx, dy) ==
    LET score(k) == Octants[k][1] * dx + Octants[k][2] * dy
    IN  CHOOSE k \in 1..Len(Octants) :
            /\ \A m \in 1..Len(Octants) : score(m) <= score(k)
            /\ \A m \in 1..(k - 1) : score(m) < score(k)

\* C21: the direction of every step between two different coordinates is the
\* label of the octant nearest on the circle to the angle of the step, so
\* that an angle just below 360 degrees gets the label of 0 degrees.
C21_DirectionIsNearestOctant ==
    dpc = "returned" =>
      \A k \in 1..Len(steps), i \in 1..(Len(infos) - 1) :
          ( /\ infos[i].name = steps[k].from
            /\ infos[i + 1].name = steps[k].to
            /\ steps[k].distance # 0 ) =>
          LET dx == LabelColumn(infos[i + 1].grid) - LabelColumn(infos[i].grid)
              dy == LabelRow(infos[i + 1].grid) - LabelRow(infos[i].grid)
          IN  steps[k].direction = Dirs[NearestOctant(dx, dy)]


\* ------------------------------------------- the tool endeavor_rag_directory
\* the rows of get_node_details: for each name of the path, in order, every
\* Location node of that name
RECURSIVE GetNodeDetails(_, _)
GetNodeDetails(d, path_names) ==
    IF path_names = <<>> THEN <<>>
    ELSE LET name == Head(path_names)
             found == SelectSeq(d.order, LAMBDA x : d.nodes[x].name = name)
         IN  [k \in 1..Len(found) |->
                 Info(name, d.nodes[found[k]].grid, d.nodes[found[k]].level)]
             \o GetNodeDetails(d, Tail(path_names))

Running(at, start, end, path, instructions) ==
    [pc |-> at, start |-> start, end |-> end, path |-> path,
     instructions |-> instructions]

\* rag.parse_user_query(user_input): the model's reply holds a dictionary
\* with the two names, or the call raises (no {...} in the reply, a reply
\* that is no dictionary with both keys, a failed request)
EntryParse ==
    /\ ep.pc = "call"
    /\ \/ \E start \in QueryNames, end \in QueryNames :
              ep' = Running("parsed", start, end, <<>>, ep.instructions)
       \/ ep' = [ep EXCEPT !.pc = "except"]
    /\ UNCHANGED <<buildVars, res, recVars, renVars>>

\* rag.get_shortest_path(start, end)
EntryPath ==
    /\ ep.pc = "parsed"
    /\ \E r \in Answers(db, "directory", ep.start, ep.end, DirectoryTypes) :
           ep' = IF r.raised THEN [ep EXCEPT !.pc = "except"]
                 ELSE [ep EXCEPT !.pc = "path", !.path = r.out]
    /\ UNCHANGED <<buildVars, res, recVars, renVars>>

\* rag.render_path_to_instruction(path), up to the call of
\* generate_directions
EntryRender ==
    /\ ep.pc = "path"
    /\ LET node_infos == GetNodeDetails(db, ep.path)
       IN  IF ep.path = <<>>
           THEN /\ ep' = [ep EXCEPT !.pc = "assigned", !.instructions = "sorry"]
                /\ UNCHANGED dirVars
           ELSE IF Len(ep.path) = 1
           THEN /\ ep' = [ep EXCEPT !.pc = "assigned", !.instructions = "already"]
                /\ UNCHANGED dirVars
           ELSE IF node_infos = <<>>
           THEN /\ ep' = [ep EXCEPT !.pc = "assigned", !.instructions = "missing"]
                /\ UNCHANGED dirVars
           ELSE /\ ep' = [ep EXCEPT !.pc = "directions"]
                /\ infos' = node_infos
                /\ dpc' = "call"
                /\ UNCHANGED <<di, steps, dtext>>
    /\ UNCHANGED <<buildVars, res, recVars, gridVars>>

\* the rest of render_path_to_instruction: the request to the language
\* model answers with a text or raises
EntryPrompt ==
    /\ ep.pc = "directions"
    /\ \/ /\ dpc = "raised"
          /\ ep' = [ep EXCEPT !.pc = "except"]
       \/ /\ dpc = "returned"
          /\ \/ ep' = [ep EXCEPT !.pc = "assigned", !.instructions = "text"]
             \/ ep' = [ep EXCEPT !.pc = "except"]
    /\ UNCHANGED <<buildVars, res, recVars, renVars>>

\* the end of the try statement: the two prints or the except clause, the
\* finally clause, and `return instructions`, which raises UnboundLocalError
\* when no statement of the try block assigned the name
EntryReturn ==
    /\ ep.pc \in {"assigned", "except"}
    /\ ep' = [ep EXCEPT !.pc = IF ep.instructions = "unbound" THEN "escaped"
                                ELSE "returned"]
    /\ UNCHANGED <<buildVars, res, recVars, renVars>>

Entry == EntryParse \/ EntryPath \/ EntryRender \/ EntryPrompt \/ EntryReturn

\* a call of the tool on the graph a finished run of the builder left
InitEntry ==
    /\ records \in RouteInputs
    /\ db = BuildAll(records)
    /\ pc = "start"
    /\ fetched = <<>>
    /\ li = 0
    /\ lj = 0
    /\ lastBuilt = [graph |-> db, same |-> TRUE]
    /\ res = NoResult
    /\ RecIdle
    /\ RenIdle
    /\ ep = Running("call", "", "", <<>>, "unbound")

SpecEntry == InitEntry /\ [][Entry \/ Directions]_vars

\* C22: every call of endeavor_rag_directory that ends returns a value: no
\* failure of parsing, of the path lookup or of the rendering leaves the
\* call by an exception
C22_EntryPointAlwaysReturns == ep.pc # "escaped"


\* ------------------------------------------------------------------- C23
\* C23: a route query leaves the graph as it found it: the step in which
\* get_shortest_path answers changes no node and no relationship
C23_QueriesLeaveGraphUnchanged == [][Answered => db' = db]_vars

\* a query has found a path in a finished graph that holds relationships
C23_Witness == Built /\ res.out # <<>> /\ db.near # {} /\ db.stairsTo # {}


\* ------------------------------------------------------------------- C24
\* the Location nodes the store holds, one entry per node
LocationNodes(d) == d.order

\* the distinct ids of the input file
RecordIds == { records[k].id : k \in 1..Len(records) }

\* C24: from the end of load_nodes_from_json on the store holds exactly one
\* Location node for each distinct id of the input file, records with the
\* same id having been merged, and no node of an id the file does not hold
C24_OneNodePerDistinctId ==
    Loaded =>
        /\ Ids(db) = RecordIds
        /\ { LocationNodes(db)[k] : k \in 1..Len(LocationNodes(db)) } = RecordIds
        /\ Len(LocationNodes(db)) = Cardinality(RecordIds)

\* the file repeats an id and the store held other nodes before the load
C24_Witness ==
    /\ pc = "loaded"
    /\ Len(records) > Cardinality(RecordIds)
    /\ Cardinality(RecordIds) > 1
    /\ lastBuilt.graph = StaleDB


\* ------------------------------------------------------------------- C25
\* C25: while recommend scans the available rooms, room_heap never holds
\* more than top_k entries
C25_HeapHoldsAtMostK == rpc = "scan" => Len(heap) <= rq.top_k


\* ------------------------------------------------------------------- C26
\* two locations of different levels, each NEAR one end of a pair of stairs
\* the builder joined by STAIRS_TO
AcrossStairwell(d, start, end) ==
    \E s \in Named(d, start), e \in Named(d, end), p \in d.stairsTo :
        /\ Level(d, s) # Level(d, e)
        /\ <<s, p[1]>> \in Joined(d, {"NEAR"})
        /\ <<p[2], e>> \in Joined(d, {"NEAR"})

\* C26: on a finished graph the router of endeavor_rag_directory.py answers
\* a query between two such locations with a path, not with the empty list
C26_RouterCrossesStairwell ==
    [][(Answered /\ Built /\ res'.op = "directory" /\ ~res'.raised
          /\ AcrossStairwell(db, res'.start, res'.end)) => res'.out # <<>>]_vars


\* ------------------------------------------------------------------- C27
\* the nodes and relationships of a store, without the order of creation
Graph(d) == [nodes |-> d.nodes, levels |-> d.levels, locatedOn |-> d.locatedOn,
             accessibleFrom |-> d.accessibleFrom, stairsTo |-> d.stairsTo,
             connectsTo |-> d.connectsTo, near |-> d.near]

\* the orders the records of a file can be written in
RECURSIVE Orders(_)
Orders(l) ==
    IF l = <<>> THEN { <<>> }
    ELSE UNION { { <<l[k]>> \o rest :
                     rest \in Orders(SubSeq(l, 1, k - 1) \o SubSeq(l, k + 1, Len(l))) } :
                 k \in 1..Len(l) }

\* every order of a file of up to MaxOrder records; of a longer file, the
\* orders that exchange two of its records
MaxOrder == 4

Reordered(l) ==
    IF Len(l) <= MaxOrder THEN Orders(l)
    ELSE { [k \in 1..Len(l) |-> IF k = i THEN l[j] ELSE IF k = j THEN l[i] ELSE l[k]] :
             i \in 1..Len(l), j \in 1..Len(l) }

DistinctIds(l) == \A i \in 1..Len(l), j \in 1..Len(l) : l[i].id = l[j].id => i = j

\* C27: for a file whose records have distinct ids, the finished graph has
\* the nodes, the relationships and the distances that a build of the same
\* records in any other order gives
C27_GraphIndependentOfRecordOrder ==
    (Built /\ DistinctIds(records)) =>
        \A l \in Reordered(records) : Graph(BuildAll(l)) = Graph(db)

\* a file of records in descending order with stairs, a lobby and NEAR pairs
C27_Witness ==
    /\ Built
    /\ DistinctIds(records)
    /\ Len(records) = MaxOrder
    /\ db.near # {} /\ db.stairsTo # {} /\ db.accessibleFrom # {}
    /\ records[1].id = "g"


\* ------------------------------------------------------------------- C28
\* C28: for the window of a call, a room of the table is among the rows of
\* get_available_rooms exactly if is_room_available answers True for it, and
\* exactly if none of its bookings [lo, hi) shares an instant with the
\* window [start_time, end_time); a booking that ends where the window
\* starts, or starts where it ends, does not block the room
C28_AvailabilityInterfacesAgree ==
    rpc \in {"scan", "pop", "returned", "raised"} =>
        \A k \in 1..Len(rooms) :
            LET listed == rooms[k] \in Range(avail)
                answer == IsRoomAvailable(rooms[k].room_id, rq.start_time, rq.end_time)
                clear  == \A b \in bookings :
                              b.room_id = rooms[k].room_id =>
                                  (b.hi <= rq.start_time \/ rq.end_time <= b.lo)
            IN  (listed <=> answer) /\ (answer <=> clear)

\* one room is blocked and another is listed although a booking of it
\* touches the window
C28_Witness ==
    /\ rpc = "scan"
    /\ \E k \in 1..Len(rooms) : rooms[k] \notin Range(avail)
    /\ \E k \in 1..Len(rooms), b \in bookings :
          /\ rooms[k] \in Range(avail)
          /\ b.room_id = rooms[k].room_id
          /\ (b.hi = rq.start_time \/ b.lo = rq.end_time)


\* ------------------------------------------------------------------- C29
\* the requesters whose grid gives a distance to room k
Usable(k) == { u \in 1..Len(rq.user_grids) :
                 Parses(rq.user_grids[u]) /\ Parses(rooms[k].grid) }

RECURSIVE Total(_, _)
Total(k, U) ==
    IF U = {} THEN 0
    ELSE LET u == CHOOSE v \in U : TRUE
         IN  FloatSqrt(Square(rq.user_grids[u], rooms[k].grid)) + Total(k, U \ {u})

\* the rooms ranked so far: the entries of the heap and those taken from it
Ranked == Range(heap) \cup Range(recs)

\* C29: once recommend has scanned the available rooms, the key of every
\* ranked room is the mean of its distances to the requesters whose grid
\* gives one, the other requesters being left out of the mean, and an
\* available room is ranked as soon as one requester gives a distance
C29_MeanOverComputableDistances ==
    rpc \in {"pop", "returned"} =>
        /\ \A e \in Ranked :
              \E k \in Free : /\ IsRow(e, k)
                              /\ Usable(k) # {}
                              /\ e.dist = Total(k, Usable(k)) \div Cardinality(Usable(k))
        /\ \A k \in Free : Usable(k) # {} => \E e \in Ranked : IsRow(e, k)

\* a request with a grid that gives no distance, answered with a room ranked
\* by its distance to the other requester, a room without distance left out
C29_Witness ==
    /\ rpc = "returned"
    /\ \E u \in 1..Len(rq.user_grids) : ~Parses(rq.user_grids[u])
    /\ \E i \in 1..Len(recs) : recs[i].dist > 0
    /\ \E k \in Free : Usable(k) = {}


\* ------------------------------------------------------------------- C30
\* C30: the column parse_grid computes for the letters of a label is the
\* number _col_to_num gives for the same letters
C30_ColumnDecodersAgree ==
    (gpc # "call" /\ parsed.kind = "pos") =>
        parsed.col = ColToNum(ReMatch(grids[1]).letters)

\* the label BC10 was parsed: two different letters, column 2 * 26 + 3
C30_Witness ==
    /\ gpc = "done"
    /\ grids[1] = <<"B","C","1","0">>
    /\ parsed.col = 55
    /\ ColToNum(<<"B","C">>) = 55

====
